---- MODULE Spec2Model ----
(***************************************************************************)
(* A model of tvtk/util/gradient_editor.py: the colour conversions, the    *)
(* control points, the legacy gradient table (GradientTableOld) and the    *)
(* delegating gradient table (GradientTable).                              *)
(*                                                                         *)
(* Numbers.  The program computes with floats; the model computes with     *)
(* exact rationals <<n, d>> (d > 0, lowest terms), so that rounding of the *)
(* binary representation is left out and every other step of the           *)
(* arithmetic (truncation to a table index, clamping, division by a zero   *)
(* width, printing with a limited number of digits) is kept.               *)
(*                                                                         *)
(* Strings.  A string that the program only splits at whitespace is the    *)
(* sequence of its words; the active-channel string is the sequence of its *)
(* characters.                                                             *)
(***************************************************************************)
EXTENDS Integers, Sequences, FiniteSets, TLC

(***************************************************************************)
(* Bounds of the model.                                                    *)
(***************************************************************************)
\* num_entries handed to the constructor: the table has this many rows.
TableSize == 5
\* The control-point list never grows beyond this many points.
MaxPoints == 4
\* Number of calls made on one table object.
MaxOps == 3
\* Significant digits str() prints for a float (12 in the interpreter the
\* program was written for; scaled down with the rest of the model).
PrintDigits == 3

(***************************************************************************)
(* Exact rationals.                                                        *)
(***************************************************************************)
Abs(x) == IF x < 0 THEN -x ELSE x

RECURSIVE GCD(_, _)
GCD(a, b) == IF b = 0 THEN a ELSE GCD(b, a % b)

\* The element of a set of one element.
Only(S) == CHOOSE x \in S : TRUE

\* n/d in lowest terms with a positive denominator (d # 0).
Rat(n, d) ==
    IF d = 1 THEN <<n, 1>>
    ELSE LET g == GCD(Abs(n), Abs(d))
             s == IF d < 0 THEN -1 ELSE 1
         IN  <<(s * n) \div g, (s * d) \div g>>

RInt(i) == <<i, 1>>
Zero == <<0, 1>>
One == <<1, 1>>

\* Sums and comparisons go through the least common denominator and
\* products are reduced crosswise, to keep the integers small.  Each
\* operand is evaluated once, whatever the number of places that read it.
RAdd(x, y) ==
    Only({IF a[1] = 0 THEN b
          ELSE IF b[1] = 0 THEN a
          ELSE IF a[2] = b[2] THEN Rat(a[1] + b[1], a[2])
          ELSE LET g == GCD(a[2], b[2])
               IN  Rat(a[1] * (b[2] \div g) + b[1] * (a[2] \div g),
                       (a[2] \div g) * b[2]) : a \in {x}, b \in {y}})
RNeg(x) == Only({<<-a[1], a[2]>> : a \in {x}})
RSub(x, y) == RAdd(x, RNeg(y))
RMul(x, y) ==
    Only({IF a[1] = 0 \/ b[1] = 0 THEN <<0, 1>>
          ELSE IF a = <<1, 1>> THEN b
          ELSE IF b = <<1, 1>> THEN a
          ELSE LET g1 == GCD(Abs(a[1]), b[2])
                   g2 == GCD(Abs(b[1]), a[2])
               IN  <<(a[1] \div g1) * (b[1] \div g2),
                     (a[2] \div g2) * (b[2] \div g1)>> : a \in {x}, b \in {y}})
\* y # 0
RDiv(x, y) ==
    RMul(x, Only({IF b[1] < 0 THEN <<-b[2], -b[1]>> ELSE <<b[2], b[1]>> : b \in {y}}))
RLt(x, y) ==
    \E a \in {x}, b \in {y} :
        IF a[2] = b[2] THEN a[1] < b[1]
        ELSE LET g == GCD(a[2], b[2])
             IN  a[1] * (b[2] \div g) < b[1] * (a[2] \div g)
RLe(x, y) == ~RLt(y, x)
RMax(a, b) == IF RLt(a, b) THEN b ELSE a
RMin(a, b) == IF RLt(b, a) THEN b ELSE a
\* int(x): truncation towards zero.
RTrunc(a) == IF a[1] >= 0 THEN a[1] \div a[2] ELSE -((-a[1]) \div a[2])

RECURSIVE Pow10(_)
Pow10(k) == IF k = 0 THEN 1 ELSE 10 * Pow10(k - 1)

(***************************************************************************)
(* Utility functions.                                                      *)
(***************************************************************************)
lerp(arg0, arg1, f) == RAdd(RMul(RSub(One, f), arg0), RMul(f, arg1))

HueOf(r, g, b, max_comp, min_comp) ==
    LET h0 == Rat(1, 6)
        span == RSub(max_comp, min_comp)
    IN  IF max_comp # min_comp
        THEN IF RLe(g, r) /\ RLe(b, r)
             THEN RMul(h0, RAdd(RInt(0), RDiv(RSub(g, b), span)))
             ELSE IF RLe(b, g)
                  THEN RMul(h0, RAdd(RInt(2), RDiv(RSub(b, r), span)))
                  ELSE RMul(h0, RAdd(RInt(4), RDiv(RSub(r, g), span)))
        ELSE h0

\* The hue left negative: without "if h < 0: h += 1.0".
WrapHueAboveOnly(h) ==
    Only({IF RLt(One, h1) THEN RSub(h1, One) ELSE h1 : h1 \in {h}})

WrapHue(h) ==
    Only({Only({IF RLt(One, h2) THEN RSub(h2, One) ELSE h2 :
                h2 \in {IF RLt(h1, Zero) THEN RAdd(h1, One) ELSE h1}}) :
          h1 \in {h}})

rgba_to_hsva(r_, g_, b_, a) ==
    Only({Only({<<WrapHue(HueOf(r, g, b, max_comp, min_comp)),
                  IF max_comp # Zero
                  THEN RDiv(RSub(max_comp, min_comp), max_comp) ELSE Zero,
                  max_comp, a>> :
                max_comp \in {RMax(r, RMax(g, b))},
                min_comp \in {RMin(r, RMin(g, b))}}) :
          r \in {r_}, g \in {g_}, b \in {b_}})

HueSlice(hue_slice_index, hue_partial, s, v, a) ==
    LET p == RMul(v, RSub(One, s))
        q == RMul(v, RSub(One, RMul(hue_partial, s)))
        t == RMul(v, RSub(One, RMul(RSub(One, hue_partial), s)))
    IN  CASE hue_slice_index = 0 -> <<v, t, p, a>>
          [] hue_slice_index = 1 -> <<q, v, p, a>>
          [] hue_slice_index = 2 -> <<p, v, t, a>>
          [] hue_slice_index = 3 -> <<p, q, v, a>>
          [] hue_slice_index = 4 -> <<t, p, v, a>>
          [] hue_slice_index = 5 -> <<v, p, q, a>>
          [] OTHER -> <<v, v, v, a>>

hsva_to_rgba(h_, s_, v_, a) ==
    Only({IF RLt(s, Rat(1, 10000)) THEN <<v, v, v, a>>
          ELSE Only({Only({HueSlice(hue_slice_index,
                                    RSub(h60, RInt(hue_slice_index)), s, v, a) :
                           hue_slice_index \in {RTrunc(h60)}}) :
                     h60 \in {RDiv(RMul(h_, RInt(360)), RInt(60))}}) :
          s \in {s_}, v \in {v_}})

(***************************************************************************)
(* Color and ColorControlPoint.  A control point is a record; its colour   *)
(* is the hsva tuple its Color object stores.                              *)
(***************************************************************************)
\* Color.__init__
ColorInit == <<Zero, Zero, Rat(1, 2), One>>

Has(c, str) == \E i \in 1..Len(str) : str[i] = c

RECURSIVE activate_channels(_, _)
activate_channels(active, new_channels) ==
    IF new_channels = <<>> THEN active
    ELSE activate_channels(
             IF Has(Head(new_channels), active) THEN active
             ELSE Append(active, Head(new_channels)),
             Tail(new_channels))

\* ColorControlPoint.__init__(active_channels, fixed)
ColorControlPoint(active_channels, fixed) ==
    [pos |-> Zero,
     fixed |-> fixed,
     active_channels |->
         IF active_channels # <<"a">>
         THEN activate_channels(<<"r", "g", "b">>, active_channels)
         ELSE <<"a">>,
     hsva |-> ColorInit]

\* set_pos without the clamp at 0.0.
set_pos_unclamped_below(f) == RMin(f, One)

\* ColorControlPoint.set_pos: the new value of pos.
set_pos(f) == RMax(RMin(f, One), Zero)

\* Color.set_rgba
set_rgba(pt, r, g, b, a) == [pt EXCEPT !.hsva = rgba_to_hsva(r, g, b, a)]

\* Color.set_rgb
set_rgb(pt, r, g, b) == set_rgba(pt, r, g, b, One)

\* Color.get_rgba
get_rgba(pt) == hsva_to_rgba(pt.hsva[1], pt.hsva[2], pt.hsva[3], pt.hsva[4])

(***************************************************************************)
(* State.                                                                  *)
(*   control_points   the list self.control_points                         *)
(*   table_hsva       legacy table: the four rows h, s, v, a               *)
(*   table            legacy table: the four rows r, g, b, a; delegating   *)
(*                    table: the keyframes of the ColorTransferFunction    *)
(*   alpha            delegating table: keyframes of the PiecewiseFunction *)
(*   scaling_function_string, scaling_function_parameter, scaling_function *)
(*                    the three scaling attributes of the table object     *)
(*   grad_file        the .grad file written by the last save()            *)
(*   saved            the control points and tables as they were when the  *)
(*                    last save() was called                               *)
(*   vtk_table        the tvtk.LookupTable written by the last             *)
(*                    store_to_vtk_lookup_table()                          *)
(*   volume_prop      the tvtk.VolumeProperty written by the last          *)
(*                    store_to_vtk_volume_prop(): the add_hsv_point and    *)
(*                    add_point calls made on its two functions            *)
(*   op, arg, err, msg  the last call, its argument, the exception it      *)
(*                    raised ("" when it returned) and the payload of the  *)
(*                    exception                                            *)
(*   returned         the value the last query returned                    *)
(*   nops             number of calls made so far                          *)
(***************************************************************************)
VARIABLES control_points, table_hsva, table, alpha,
          scaling_function_string, scaling_function_parameter,
          scaling_function, grad_file, saved, vtk_table, volume_prop,
          op, arg, err, msg, returned, nops

vars == <<control_points, table_hsva, table, alpha,
          scaling_function_string, scaling_function_parameter,
          scaling_function, grad_file, saved, vtk_table, volume_prop,
          op, arg, err, msg, returned, nops>>

\* Python's None
None == [none |-> TRUE]

(***************************************************************************)
(* GradientTableOld: the control-point list.                               *)
(***************************************************************************)
\* An unstable sort: x is put before the points of the same position.
RECURSIVE InsertSortedUnstable(_, _)
InsertSortedUnstable(sorted, x) ==
    IF sorted = <<>> THEN <<x>>
    ELSE LET last == sorted[Len(sorted)]
         IN  IF RLe(x.pos, last.pos)
             THEN Append(InsertSortedUnstable(SubSeq(sorted, 1, Len(sorted) - 1), x),
                         last)
             ELSE Append(sorted, x)

\* Position of x in the list sorted so far: after every point that does not
\* compare greater (list.sort is stable).
RECURSIVE InsertSorted(_, _)
InsertSorted(sorted, x) ==
    IF sorted = <<>> THEN <<x>>
    ELSE LET last == sorted[Len(sorted)]
         IN  IF RLt(x.pos, last.pos)
             THEN Append(InsertSorted(SubSeq(sorted, 1, Len(sorted) - 1), x), last)
             ELSE Append(sorted, x)

RECURSIVE SortFrom(_, _)
SortFrom(sorted, rest) ==
    IF rest = <<>> THEN sorted
    ELSE Only({SortFrom(s, Tail(rest)) : s \in {InsertSorted(sorted, Head(rest))}})

\* GradientTableOld.sort_control_points, GradientTable.sort_control_points
sort_control_points(cps) == Only({SortFrom(<<>>, c) : c \in {cps}})

\* GradientTableOld.insert_control_point, GradientTable.insert_control_point
insert_control_point(cps, new_point) == sort_control_points(Append(cps, new_point))

(***************************************************************************)
(* GradientTableOld: the table.                                            *)
(***************************************************************************)
Channels == <<"h", "s", "v", "a">>

\* An index by rounding to the nearest instead of truncating.
get_pos_index_rounding(f) ==
    RTrunc(RAdd(RMul(f, RInt(TableSize - 1)), Rat(1, 2)))

get_pos_index(f) == RTrunc(RMul(f, RInt(TableSize - 1)))

get_index_pos(idx) == Rat(idx, TableSize - 1)

get_color_hsva(t_hsva, idx) ==
    <<t_hsva[1][idx + 1], t_hsva[2][idx + 1], t_hsva[3][idx + 1], t_hsva[4][idx + 1]>>

get_color(t_rgba, idx) ==
    <<t_rgba[1][idx + 1], t_rgba[2][idx + 1], t_rgba[3][idx + 1], t_rgba[4][idx + 1]>>

\* The hsva tuple of the Color get_pos_color(f) returns (f in [0, 1]).
get_pos_color(t_hsva, f) == get_color_hsva(t_hsva, get_pos_index(f))

\* update(): the list of (table index, point) pairs.
control_point_indices_total(cps) ==
    [i \in 1..Len(cps) |-> [idx |-> get_pos_index(cps[i].pos), point |-> cps[i]]]

\* The pairs of the points active on channel c, and of all points on the
\* alpha channel.
control_point_indices_all_on_alpha(cps, c) ==
    SelectSeq(control_point_indices_total(cps),
              LAMBDA x : c = "a" \/ Has(c, x.point.active_channels))

\* update(): the pairs of the points active on channel c.
control_point_indices(cps, c) ==
    SelectSeq(control_point_indices_total(cps),
              LAMBDA x : Has(c, x.point.active_channels))

\* update(): the inner while loop at table index k.  w holds the locals of
\* the walk; end_point_id counts from 0 as in the program.
RECURSIVE NextInterval(_, _, _)
NextInterval(cpi, w, k) ==
    IF w.err # "" \/ k # w.next_interval_begin_idx THEN w
    ELSE IF w.end_point_id + 1 >= Len(cpi)
         THEN [w EXCEPT !.err = "IndexError"]
         ELSE LET e == cpi[w.end_point_id + 2]
              IN  NextInterval(cpi,
                      [end_point_id |-> w.end_point_id + 1,
                       start_point |-> w.end_point,
                       start_pos |-> w.end_pos,
                       end_point |-> e.point,
                       end_pos |-> e.point.pos,
                       next_interval_begin_idx |-> 1 + e.idx,
                       err |-> ""], k)

\* update(): the interpolation weight of table index k between the current
\* pair of points (end_pos # start_pos).
Weight(w, k) ==
    RDiv(RSub(get_index_pos(k), w.start_pos), RSub(w.end_pos, w.start_pos))

\* update(): the loop over the table indices k, k+1, ... of channel number
\* ci, writing row as it goes; stops at the first exception.
RECURSIVE WalkRow(_, _, _, _, _)
WalkRow(cpi, ci, row, w, k) ==
    IF k = TableSize
    THEN [row |-> row,
          err |-> IF w.next_interval_begin_idx = TableSize THEN ""
                  ELSE "AssertionError"]
    ELSE Only({
             IF w2.err # "" THEN [row |-> row, err |-> w2.err]
             ELSE IF w2.end_pos = w2.start_pos
                  THEN [row |-> row, err |-> "ZeroDivisionError"]
                  ELSE Only({
                           IF ~(RLe(Zero, f) /\ RLe(f, One))
                           THEN [row |-> row, err |-> "AssertionError"]
                           ELSE Only({WalkRow(cpi, ci, row2, w2, k + 1) :
                                    row2 \in {[row EXCEPT ![k + 1] =
                                        lerp(w2.start_point.hsva[ci],
                                             w2.end_point.hsva[ci], f)]}}) :
                           f \in {Weight(w2, k)}}) :
             w2 \in {NextInterval(cpi, w, k)}})

\* update(): one channel.
UpdateChannel(cps, ci, row) ==
    Only({IF Len(cpi) < 2 THEN [row |-> row, err |-> "AssertionError"]
          ELSE Only({WalkRow(cpi, ci, row, w, 0) :
                   w \in {[end_point_id |-> 0,
                           start_point |-> cpi[1].point,
                           start_pos |-> Zero,
                           end_point |-> cpi[1].point,
                           end_pos |-> Zero,
                           next_interval_begin_idx |-> 0,
                           err |-> ""]}}) :
          cpi \in {control_point_indices(cps, Channels[ci])}})

\* update(): the channels ci, ci+1, ..., 4 in turn; stops at the first
\* exception, with the rows written so far.
RECURSIVE UpdateChannels(_, _, _)
UpdateChannels(cps, t_hsva, ci) ==
    IF ci > 4 THEN [table_hsva |-> t_hsva, err |-> ""]
    ELSE Only({Only({IF r.err # "" THEN [table_hsva |-> t, err |-> r.err]
                     ELSE UpdateChannels(cps, t, ci + 1) :
                     t \in {[t_hsva EXCEPT ![ci] = r.row]}}) :
               r \in {UpdateChannel(cps, ci, t_hsva[ci])}})

\* update(): the conversion of every row of the hsva table.
ConvertTable(t_hsva) ==
    [c \in 1..4 |->
        [k \in 1..TableSize |->
            hsva_to_rgba(t_hsva[1][k], t_hsva[2][k], t_hsva[3][k], t_hsva[4][k])[c]]]

\* update() with the conversion to rgba run before the channel loop: the
\* rgba table is converted from the hsva table of the call before.
update_converting_first(cps, t_hsva, t_rgba) ==
    Only({[table_hsva |-> r.table_hsva,
           table |-> IF r.err = "" THEN ConvertTable(t_hsva) ELSE t_rgba,
           err |-> r.err] :
          r \in {Only({UpdateChannels(c, t_hsva, 1) : c \in {cps}})}})

\* GradientTableOld.update: the tables and the exception it ends with.
update(cps, t_hsva, t_rgba) ==
    Only({[table_hsva |-> r.table_hsva,
           table |-> IF r.err = "" THEN ConvertTable(r.table_hsva) ELSE t_rgba,
           err |-> r.err] :
          r \in {Only({UpdateChannels(c, t_hsva, 1) : c \in {cps}})}})

ZeroTable == [c \in 1..4 |-> [k \in 1..TableSize |-> Zero]]

(***************************************************************************)
(* The table object.  An operation of the object is an operator from the   *)
(* object's attributes (the record self) and the arguments to the          *)
(* attributes after the call, the exception raised ("" for a normal        *)
(* return) and the exception's payload.                                    *)
(***************************************************************************)
Self ==
    [control_points |-> control_points,
     table_hsva |-> table_hsva,
     table |-> table,
     alpha |-> alpha,
     scaling_function_string |-> scaling_function_string,
     scaling_function_parameter |-> scaling_function_parameter,
     scaling_function |-> scaling_function]

Returns(self) == [self |-> self, err |-> "", msg |-> <<>>]

Raises(self, e, m) == [self |-> self, err |-> e, msg |-> m]

\* GradientTableOld.update as an operation of the object.
UpdateOld(self) ==
    Only({Only({Raises([s EXCEPT !.table_hsva = u.table_hsva, !.table = u.table],
                       u.err, <<>>) :
                u \in {update(s.control_points, s.table_hsva, s.table)}}) :
          s \in {self}})

(***************************************************************************)
(* The scaling function.  An expression is the sequence of its words.      *)
(* Compiling "def ParamFn(x): return <expression>" fails on a syntax       *)
(* error; an expression that compiles may still raise when it is called.   *)
(***************************************************************************)
\* Expressions the interpreter rejects with a SyntaxError.
SyntaxErrors == {<<"x**">>}

\* Expressions that raise for every x in [0, 1] when called.
DomainErrors == {<<"log(x-1)">>}

def_string(expr) == <<"def", "ParamFn(x):", "return">> \o expr

\* The exec statement: the compiled function, or None on an exception.
Exec(expr, a) ==
    IF expr \in SyntaxErrors THEN None ELSE [expr |-> expr, a |-> a]

\* GradientTableOld.scaling_parameters_changed
scaling_parameters_changed(self) ==
    Only({LET fn == Exec(s0.scaling_function_string, s0.scaling_function_parameter)
          IN  IF s0.scaling_function_string = <<>> THEN Returns(s0)
              ELSE IF fn # None THEN Returns([s0 EXCEPT !.scaling_function = fn])
                   ELSE Raises(s0, "ValueError",
                               <<"failed to compile function: ",
                                [def_string |-> def_string(s0.scaling_function_string)]>>) :
          s0 \in {[self EXCEPT !.scaling_function = None]}})

\* GradientTableOld.set_scaling_function_parameter
set_scaling_function_parameter(self, new_parameter) ==
    scaling_parameters_changed(
        [self EXCEPT !.scaling_function_parameter = new_parameter])

\* GradientTableOld.set_scaling_function
set_scaling_function(self, new_function_string) ==
    scaling_parameters_changed(
        [self EXCEPT !.scaling_function_string = new_function_string])

(***************************************************************************)
(* GradientTableOld: the exports to VTK objects.                           *)
(***************************************************************************)
\* x ** k for a whole number k.
RECURSIVE RPow(_, _)
RPow(x, k) == IF k = 0 THEN One ELSE RMul(x, RPow(x, k - 1))

\* The call ParamFn(x) of the compiled function fn: its value, or the
\* exception it raises and the exception's payload.  The expressions are those of the inputs; a is
\* the parameter the function was compiled with.
ParamFn(fn, x) ==
    CASE fn.expr = <<"x**(4*a)">> /\ RMul(RInt(4), fn.a)[2] = 1
                                  /\ RMul(RInt(4), fn.a)[1] >= 0 ->
             [value |-> RPow(x, RMul(RInt(4), fn.a)[1]), err |-> "",
              msg |-> <<>>]
      [] fn.expr = <<"x", "**", "2">> ->
             [value |-> RMul(x, x), err |-> "", msg |-> <<>>]
      [] fn.expr = <<"2*x">> ->
             [value |-> RMul(RInt(2), x), err |-> "", msg |-> <<>>]
      [] fn.expr \in DomainErrors ->
             [value |-> Zero, err |-> "ValueError",
              msg |-> <<"math domain error">>]

\* GradientTableOld.get_pos_rgba_color_lerped
get_pos_rgba_color_lerped(t_rgba, f) ==
    Only({Only({[c \in 1..4 |->
                    lerp(t_rgba[c][idx0 + 1],
                         t_rgba[c][(IF TableSize - 1 < 1 + idx0
                                    THEN TableSize - 1 ELSE 1 + idx0) + 1],
                         RSub(scaled_pos, RInt(idx0)))] :
                idx0 \in {RTrunc(scaled_pos)}}) :
          scaled_pos \in {RMul(RMax(RMin(f, One), Zero), RInt(TableSize - 1))}})

\* store_to_vtk_lookup_table without the scaling function.
ScaleXformIdentity(self, idx, num_entries) ==
    IF num_entries - 1 = 0
    THEN [value |-> Zero, err |-> "ZeroDivisionError", msg |-> <<>>]
    ELSE [value |-> Rat(idx, num_entries - 1), err |-> "", msg |-> <<>>]

\* store_to_vtk_lookup_table: the position of entry idx, or the exception
\* of the division or of the scaling function.
ScaleXform(self, idx, num_entries) ==
    IF num_entries - 1 = 0
    THEN [value |-> Zero, err |-> "ZeroDivisionError", msg |-> <<>>]
    ELSE IF self.scaling_function # None
         THEN ParamFn(self.scaling_function, Rat(idx, num_entries - 1))
         ELSE [value |-> Rat(idx, num_entries - 1), err |-> "", msg |-> <<>>]

\* store_to_vtk_lookup_table: the loop from entry idx on; values are the
\* table values set so far.
RECURSIVE SetTableValues(_, _, _, _)
SetTableValues(self, num_entries, idx, values) ==
    IF idx = num_entries
    THEN [table_values |-> values, err |-> "", msg |-> <<>>]
    ELSE Only({IF f.err # ""
               THEN [table_values |-> values, err |-> f.err, msg |-> f.msg]
               ELSE Only({SetTableValues(self, num_entries, idx + 1, v) :
                          v \in {Append(values,
                                   get_pos_rgba_color_lerped(self.table, f.value))}}) :
               f \in {ScaleXform(self, idx, num_entries)}})

\* GradientTableOld.store_to_vtk_lookup_table: the table values set and
\* the exception of the call with its payload.
store_to_vtk_lookup_table(self, num_entries) ==
    SetTableValues(self, num_entries, 0, <<>>)

\* store_to_vtk_volume_prop: the loop over the control points from point i
\* on; ctf and otf are the keyframes added so far.
RECURSIVE AddScaledPoints(_, _, _, _, _, _)
AddScaledPoints(cps, i, s1, size, ctf, otf) ==
    IF i > Len(cps) THEN [ctf |-> ctf, otf |-> otf]
    ELSE LET point == cps[i]
             x == RAdd(RInt(s1), RMul(point.pos, RInt(size)))
         IN  Only({AddScaledPoints(cps, i + 1, s1, size, c, o) :
                   c \in {IF point.active_channels # <<"a">>
                          THEN Append(ctf, <<x, point.hsva[1], point.hsva[2],
                                             point.hsva[3]>>)
                          ELSE ctf},
                   o \in {IF Has("a", point.active_channels)
                          THEN Append(otf, <<x, point.hsva[4]>>)
                          ELSE otf}})

\* GradientTableOld.store_to_vtk_volume_prop: the keyframes of the two
\* functions of the volume property.
store_to_vtk_volume_prop(self, scalar_range) ==
    AddScaledPoints(self.control_points, 1, scalar_range[1],
                    scalar_range[2] - scalar_range[1], <<>>, <<>>)

(***************************************************************************)
(* The .grad file.  A file is the record of what load() reads from it:     *)
(*   version              the number in the version tag                    *)
(*   function_line_split  the words of the ScalingFunction line            *)
(*   parameter            the number in the ScalingParameter line          *)
(*   lines                the control-point lines; a line is the record of *)
(*                        its number of words (nargs) and of the words     *)
(*                        load() reads                                     *)
(* A file whose version is below 1.1 holds no scaling lines, and load()    *)
(* reads neither function_line_split nor parameter of its record.          *)
(***************************************************************************)
\* Rounding of a non-negative rational to the nearest integer, ties to even.
RoundHalfEven(x) ==
    Only({LET fl == a[1] \div a[2]
              twice == 2 * (a[1] - fl * a[2])
          IN  IF twice < a[2] THEN fl
              ELSE IF twice > a[2] THEN fl + 1
                   ELSE IF fl % 2 = 0 THEN fl ELSE fl + 1 :
          a \in {x}})

\* The power of ten p with 10^(PrintDigits-1) <= a * 10^p (0 < a < 10^PrintDigits).
RECURSIVE Scale10(_, _)
Scale10(a, p) ==
    IF RLe(RInt(Pow10(PrintDigits - 1)), RMul(a, RInt(Pow10(p)))) THEN p
    ELSE Scale10(a, p + 1)

\* "%s" % x for a float x, read back by float(): x rounded to PrintDigits
\* significant digits.
FormatFloat(x) ==
    IF x = Zero THEN Zero
    ELSE Only({Only({Rat(IF x[1] < 0 THEN -m ELSE m, Pow10(p)) :
                     m \in {RoundHalfEven(RMul(<<Abs(x[1]), x[2]>>, RInt(Pow10(p))))}}) :
               p \in {Scale10(<<Abs(x[1]), x[2]>>, 0)}})

\* "%s" % b for a bool b.
FormatBool(b) == IF b THEN "True" ELSE "False"

\* save(): the line written for one control point.  An empty channel
\* string leaves only six words on the line.
FormatLine(pt) ==
    [nargs |-> IF pt.active_channels = <<>> THEN 6 ELSE 7,
     pos |-> FormatFloat(pt.pos),
     fixed |-> FormatBool(pt.fixed),
     active_channels |-> pt.active_channels,
     hsva |-> <<FormatFloat(pt.hsva[1]), FormatFloat(pt.hsva[2]),
                FormatFloat(pt.hsva[3]), FormatFloat(pt.hsva[4])>>]

\* save(): the .grad file.
GradFile(self) ==
    [version |-> Rat(2, 1),
     function_line_split |-> <<"ScalingFunction:">> \o self.scaling_function_string,
     parameter |-> FormatFloat(self.scaling_function_parameter),
     lines |-> [i \in 1..Len(self.control_points) |->
                   FormatLine(self.control_points[i])]]

\* GradientTableOld.save: the exception of the call.  The .grad file is
\* written first; sampling the table for the .lut file calls the scaling
\* function on every sample position.
save(self) ==
    IF self.scaling_function # None /\ self.scaling_function.expr \in DomainErrors
    THEN Raises(self, "ValueError", <<"math domain error">>)
    ELSE Returns(self)

\* load() with fixed read as bool(args[1]): every word is true.
ParseLineBool(line) ==
    [ColorControlPoint(<<>>, FALSE) EXCEPT
        !.pos = set_pos(line.pos),
        !.fixed = (line.fixed # ""),
        !.active_channels = line.active_channels,
        !.hsva = line.hsva]

\* load(): the control point read from one well-formed line.
ParseLine(line) ==
    [ColorControlPoint(<<>>, FALSE) EXCEPT
        !.pos = set_pos(line.pos),
        !.fixed = ("True" = line.fixed),
        !.active_channels = line.active_channels,
        !.hsva = line.hsva]

\* load(): the loop over the control-point lines.
RECURSIVE ReadLines(_, _)
ReadLines(lines, new_control_points) ==
    IF lines = <<>>
    THEN [points |-> new_control_points, err |-> "", msg |-> <<>>]
    ELSE IF Head(lines).nargs < 7
         THEN [points |-> new_control_points, err |-> "ValueError",
               msg |-> <<"gradient file format broken at line:", Head(lines)>>]
         ELSE Only({ReadLines(Tail(lines), pts) :
                    pts \in {Append(new_control_points, ParseLine(Head(lines)))}})

\* load(): the scaling attributes read from the head of the file.
ReadScaling(self, file) ==
    IF RLe(Rat(11, 10), RAdd(file.version, Rat(1, 100000)))
    THEN [self EXCEPT
             !.scaling_function_string =
                 IF Len(file.function_line_split) = 2
                 THEN <<file.function_line_split[2]>> ELSE <<>>,
             !.scaling_function_parameter = file.parameter]
    ELSE [self EXCEPT !.scaling_function_string = <<>>,
                      !.scaling_function_parameter = Rat(1, 2)]

\* load() without its last statement.
load_without_update(self, file) ==
    Only({IF r.err # "" THEN Raises(s1, r.err, r.msg)
          ELSE scaling_parameters_changed(
                   [s1 EXCEPT !.control_points = sort_control_points(r.points)]) :
          s1 \in {ReadScaling(self, file)}, r \in {ReadLines(file.lines, <<>>)}})

\* GradientTableOld.load
load(self, file) ==
    Only({IF r.err # "" THEN Raises(s1, r.err, r.msg)
          ELSE Only({IF c.err # "" THEN c ELSE UpdateOld(c.self) :
                     c \in {scaling_parameters_changed(
                               [s1 EXCEPT !.control_points =
                                   sort_control_points(r.points)])}}) :
          s1 \in {ReadScaling(self, file)}, r \in {ReadLines(file.lines, <<>>)}})

(***************************************************************************)
(* The transfer-function pair of a volume property, as the program sees    *)
(* it: size, range, nodes (when the object has the attribute) and the      *)
(* values get_color(x) and get_value(x) return, linear between keyframes.  *)
(***************************************************************************)
\* Value at x (a rational) of the piecewise linear function through
\* (nodes[i], vals[i]), constant outside the nodes.
Interpolate(nodes, vals, x) ==
    IF RLe(x, RInt(nodes[1])) THEN vals[1]
    ELSE IF RLe(RInt(nodes[Len(nodes)]), x) THEN vals[Len(vals)]
         ELSE Only({lerp(vals[i], vals[i + 1],
                         RDiv(RSub(x, RInt(nodes[i])),
                              RInt(nodes[i + 1] - nodes[i]))) :
                    i \in {CHOOSE j \in 1..(Len(nodes) - 1) :
                              RLe(RInt(nodes[j]), x) /\ RLt(x, RInt(nodes[j + 1]))}})

\* ctf.get_color(x)
CtfGetColor(ctf, x) ==
    <<Interpolate(ctf.nodes, [i \in 1..Len(ctf.nodes) |-> ctf.rgb[i][1]], x),
      Interpolate(ctf.nodes, [i \in 1..Len(ctf.nodes) |-> ctf.rgb[i][2]], x),
      Interpolate(ctf.nodes, [i \in 1..Len(ctf.nodes) |-> ctf.rgb[i][3]], x)>>

\* otf.get_value(x)
OtfGetValue(otf, x) == Interpolate(otf.nodes, otf.values, x)

\* ctf.range
CtfRange(ctf) == <<ctf.nodes[1], ctf.nodes[Len(ctf.nodes)]>>

\* load_from_vtk_volume_prop: the scalar of sample i (from 0) of fn.
SampleX(fn, has_nodes, i, s1, ds) ==
    IF has_nodes THEN RInt(fn.nodes[i + 1]) ELSE RAdd(RInt(s1), RMul(RInt(i), ds))

\* load_from_vtk_volume_prop: the control point made for the sample at x.
SamplePoint(vp, x, active_channels, fixed, s1, scale) ==
    Only({[set_rgba(ColorControlPoint(active_channels, fixed),
                    rgb[1], rgb[2], rgb[3], a)
              EXCEPT !.pos = set_pos(RDiv(RSub(x, RInt(s1)), RInt(scale)))] :
          rgb \in {CtfGetColor(vp.ctf, x)}, a \in {OtfGetValue(vp.otf, x)}})

\* load_from_vtk_volume_prop: the first loop, over the colour samples.
ColourPoints(vp, s1, scale) ==
    LET size == Len(vp.ctf.nodes)
        ds == Rat(scale, size - 1)
    IN  [j \in 1..size |->
            SamplePoint(vp, Only({x : x \in {SampleX(vp.ctf, vp.ctf.has_nodes,
                                                     j - 1, s1, ds)}}),
                        IF j = 1 \/ j = size THEN <<"h", "s", "v", "a">>
                        ELSE <<"h", "s", "v">>,
                        j = 1 \/ j = size, s1, scale)]

\* load_from_vtk_volume_prop: the second loop, over the interior opacity
\* samples (has_nodes is taken from the colour function here too).
AlphaPoints(vp, s1, scale) ==
    LET size == Len(vp.otf.nodes)
        ds == Rat(scale, size - 1)
    IN  [j \in 1..(size - 2) |->
            SamplePoint(vp, Only({x : x \in {SampleX(vp.otf, vp.ctf.has_nodes,
                                                     j, s1, ds)}}),
                        <<"a">>, FALSE, s1, scale)]

\* load_from_vtk_volume_prop up to the assignment of the new control
\* points and their sort; the update of the table follows in each class.
ImportControlPoints(self, vp) ==
    LET s1 == CtfRange(vp.ctf)[1]
        scale == CtfRange(vp.ctf)[2] - CtfRange(vp.ctf)[1]
    IN  IF ~(Len(vp.ctf.nodes) > 1 /\ Len(vp.otf.nodes) > 1)
        THEN Raises(self, "AssertionError", <<>>)
        ELSE IF scale = 0 THEN Raises(self, "ZeroDivisionError", <<>>)
        ELSE IF vp.ctf.has_nodes /\ ~vp.otf.has_nodes /\ Len(vp.otf.nodes) > 2
        THEN Raises(self, "AttributeError", <<>>)
        ELSE Returns([self EXCEPT !.control_points =
                 sort_control_points(ColourPoints(vp, s1, scale)
                                     \o AlphaPoints(vp, s1, scale))])

\* GradientTableOld.load_from_vtk_volume_prop
load_from_vtk_volume_prop(self, vp) ==
    Only({IF r.err # "" THEN r ELSE UpdateOld(r.self) :
          r \in {ImportControlPoints(self, vp)}})

(***************************************************************************)
(* GradientTable: the delegating table.  table holds the keyframes         *)
(* <<x, h, s, v>> added to the ColorTransferFunction and alpha the         *)
(* keyframes <<x, a>> added to the PiecewiseFunction, in the order of the  *)
(* calls that added them.                                                  *)
(***************************************************************************)
\* GradientTable.update: the loop over the control points from point i on.
RECURSIVE AddPoints(_, _, _, _)
AddPoints(cps, i, t, al) ==
    IF i > Len(cps) THEN [table |-> t, alpha |-> al]
    ELSE LET point == cps[i]
             x == point.pos
         IN  AddPoints(cps, i + 1,
                 IF point.active_channels # <<"a">>
                 THEN Append(t, <<x, point.hsva[1], point.hsva[2], point.hsva[3]>>)
                 ELSE t,
                 IF Has("a", point.active_channels)
                 THEN Append(al, <<x, point.hsva[4]>>)
                 ELSE al)

\* GradientTable.update without the two remove_all_points() calls.
UpdateNewAppending(self) ==
    LET r == AddPoints(self.control_points, 1, self.table, self.alpha)
    IN  Returns([self EXCEPT !.table = r.table, !.alpha = r.alpha])

\* GradientTable.update
UpdateNew(self) ==
    LET r == AddPoints(self.control_points, 1, <<>>, <<>>)
    IN  Returns([self EXCEPT !.table = r.table, !.alpha = r.alpha])

\* GradientTable.scaling_parameters_changed, set_scaling_function_parameter
\* and set_scaling_function
NotImplemented(self) == Raises(self, "NotImplementedError", <<>>)

\* GradientTable.load
load_new(self, file) ==
    LET s1 == ReadScaling(self, file)
        r == ReadLines(file.lines, <<>>)
        s2 == [s1 EXCEPT !.control_points = sort_control_points(r.points)]
    IN  IF r.err # "" THEN Raises(s1, r.err, r.msg)
        ELSE UpdateNew(s2)

\* GradientTable.load_from_vtk_volume_prop
load_from_vtk_volume_prop_new(self, vp) ==
    LET r == ImportControlPoints(self, vp)
    IN  IF r.err # "" THEN r ELSE UpdateNew(r.self)

(***************************************************************************)
(* GradientTableOld.__init__ and GradientTable.__init__                    *)
(***************************************************************************)
left_control_point ==
    set_rgb([ColorControlPoint(<<"h", "s", "v", "a">>, TRUE)
                 EXCEPT !.pos = set_pos(Zero)], Zero, Zero, Zero)

right_control_point ==
    set_rgb([ColorControlPoint(<<"h", "s", "v", "a">>, TRUE)
                 EXCEPT !.pos = set_pos(One)], One, One, One)

mid_control_point ==
    set_rgb([ColorControlPoint(<<"h", "s", "v">>, FALSE)
                 EXCEPT !.pos = set_pos(Rat(2, 5))], One, Rat(2, 5), Zero)

InitialControlPoints ==
    insert_control_point(<<left_control_point, right_control_point>>,
                         mid_control_point)

NoFile == [nofile |-> TRUE]

\* The attributes __init__ sets before it calls update().
InitialSelf(tables) ==
    [control_points |-> InitialControlPoints,
     table_hsva |-> tables,
     table |-> tables,
     alpha |-> <<>>,
     scaling_function_string |-> <<>>,
     scaling_function_parameter |-> Rat(1, 2),
     scaling_function |-> None]

Constructed(result) ==
    /\ \E r \in {result} :
           /\ control_points = r.self.control_points
           /\ table_hsva = r.self.table_hsva
           /\ table = r.self.table
           /\ alpha = r.self.alpha
           /\ scaling_function_string = r.self.scaling_function_string
           /\ scaling_function_parameter = r.self.scaling_function_parameter
           /\ scaling_function = r.self.scaling_function
           /\ err = r.err
           /\ msg = r.msg
    /\ grad_file = NoFile
    /\ saved = NoFile
    /\ vtk_table = None
    /\ volume_prop = None
    /\ returned = None
    /\ op = "__init__"
    /\ arg = None
    /\ nops = 0

InitOld == Constructed(UpdateOld(InitialSelf(ZeroTable)))

InitNew == Constructed(UpdateNew(InitialSelf(<<>>)))

(***************************************************************************)
(* Inputs of the calls.                                                    *)
(***************************************************************************)
\* Positions handed to set_pos: inside and above [0, 1].
PosInputs == {Rat(1, 8), Rat(3, 2)}

\* Positions of the points an editor creates: below and inside [0, 1].
NewPosInputs == {Rat(-1, 2), Rat(1, 8)}

\* Colours handed to Color.set_rgba.
RgbaInputs == {<<One, Zero, Zero, Rat(1, 2)>>}

\* Channel strings handed to ColorControlPoint.
ChannelInputs == {<<"h", "s", "v">>, <<"a">>}

\* The points an editor creates and inserts.
NewPoints ==
    {set_rgba([ColorControlPoint(ch, FALSE) EXCEPT !.pos = set_pos(f)],
              c[1], c[2], c[3], c[4]) :
        ch \in ChannelInputs, f \in NewPosInputs, c \in RgbaInputs}

\* Expressions handed to set_scaling_function.
ExprInputs == {<<"x**(4*a)">>, <<"x", "**", "2">>, <<"log(x-1)">>} \cup SyntaxErrors

\* Values handed to set_scaling_function_parameter.
ParamInputs == {Rat(1, 4)}

FileLine(n, pos, fixed, active_channels, hsva) ==
    [nargs |-> n, pos |-> pos, fixed |-> fixed,
     active_channels |-> active_channels, hsva |-> hsva]

AllChannels == <<"r", "g", "b", "h", "s", "v", "a">>

\* A version 2.0 file with a scaling function and three points.
GoodFile ==
    [version |-> Rat(2, 1),
     function_line_split |-> <<"ScalingFunction:", "x**(4*a)">>,
     parameter |-> Rat(1, 4),
     lines |-> <<FileLine(7, Zero, "True", AllChannels, <<Zero, One, One, One>>),
                 FileLine(7, Rat(2505, 10000), "False", <<"a">>,
                          <<Zero, Zero, Zero, Rat(1, 4)>>),
                 FileLine(7, One, "True", AllChannels,
                          <<Rat(1, 2), One, Rat(1, 2), One>>)>>]

\* The same file with a control-point line of five words.
BrokenFile ==
    [GoodFile EXCEPT !.lines[2] =
        FileLine(5, Rat(2505, 10000), "False", <<"a">>, <<Zero, Zero, Zero, Zero>>)]

\* A version 1.0 file: no scaling lines.
OldFile ==
    [version |-> Rat(1, 1),
     function_line_split |-> <<>>,
     parameter |-> Zero,
     lines |-> <<FileLine(7, Zero, "True", AllChannels, <<Zero, Zero, Zero, One>>),
                 FileLine(7, One, "True", AllChannels, <<Zero, Zero, One, One>>)>>]

\* A version 2.0 file without scaling function and with a single point.
ShortFile ==
    [version |-> Rat(2, 1),
     function_line_split |-> <<"ScalingFunction:">>,
     parameter |-> Rat(1, 2),
     lines |-> <<FileLine(7, Zero, "True", AllChannels, <<Zero, Zero, Zero, One>>)>>]

\* The files load() is called on: the one save() wrote, and four others.
FileInputs ==
    {GoodFile, BrokenFile, OldFile, ShortFile}
        \cup (IF grad_file = NoFile THEN {} ELSE {grad_file})

Red == <<One, Zero, Zero>>
Green == <<Zero, One, Zero>>
Blue == <<Zero, Zero, One>>

TwoColours == [nodes |-> <<0, 10>>, rgb |-> <<Red, Blue>>]
ThreeColours == [nodes |-> <<0, 3, 10>>, rgb |-> <<Red, Green, Blue>>]
OneColour == [nodes |-> <<4>>, rgb |-> <<Red>>]

TwoOpacities == [nodes |-> <<0, 10>>, values |-> <<Zero, One>>]
ThreeOpacities == [nodes |-> <<0, 4, 10>>, values |-> <<Zero, Rat(1, 2), One>>]

VolumeProp(c, hc, o, ho) ==
    [ctf |-> [nodes |-> c.nodes, rgb |-> c.rgb, has_nodes |-> hc],
     otf |-> [nodes |-> o.nodes, values |-> o.values, has_nodes |-> ho]]

\* The volume properties load_from_vtk_volume_prop is called on; either
\* function may come without the nodes attribute.
VolumePropInputs ==
    {VolumeProp(TwoColours, TRUE, TwoOpacities, TRUE),
     VolumeProp(ThreeColours, TRUE, ThreeOpacities, TRUE),
     VolumeProp(ThreeColours, FALSE, ThreeOpacities, FALSE),
     VolumeProp(TwoColours, TRUE, ThreeOpacities, FALSE),
     VolumeProp(OneColour, TRUE, TwoOpacities, TRUE)}

(***************************************************************************)
(* Calls.                                                                  *)
(***************************************************************************)
\* The call name(a) ends as r says.
Call(name, a, result) ==
    /\ nops < MaxOps
    /\ \E r \in {result} :
           /\ control_points' = r.self.control_points
           /\ table_hsva' = r.self.table_hsva
           /\ table' = r.self.table
           /\ alpha' = r.self.alpha
           /\ scaling_function_string' = r.self.scaling_function_string
           /\ scaling_function_parameter' = r.self.scaling_function_parameter
           /\ scaling_function' = r.self.scaling_function
           /\ err' = r.err
           /\ msg' = r.msg
    /\ op' = name
    /\ arg' = a
    /\ nops' = nops + 1

\* Calls of both classes on the control points.
InsertControlPoint ==
    /\ Len(control_points) < MaxPoints
    /\ \E new_point \in NewPoints :
           Call("insert_control_point", new_point,
                Returns([Self EXCEPT !.control_points =
                    insert_control_point(control_points, new_point)]))
    /\ UNCHANGED <<grad_file, saved, vtk_table, volume_prop, returned>>

SetPos ==
    /\ \E i \in 1..Len(control_points), f \in PosInputs :
           Call("set_pos", [i |-> i, f |-> f],
                Returns([Self EXCEPT !.control_points[i].pos = set_pos(f)]))
    /\ UNCHANGED <<grad_file, saved, vtk_table, volume_prop, returned>>

SetRgba ==
    /\ \E i \in 1..Len(control_points), c \in RgbaInputs :
           Call("set_rgba", [i |-> i, c |-> c],
                Returns([Self EXCEPT !.control_points[i] =
                    set_rgba(@, c[1], c[2], c[3], c[4])]))
    /\ UNCHANGED <<grad_file, saved, vtk_table, volume_prop, returned>>

\* The editor deletes a point that is not fixed from the list.
RemoveControlPoint ==
    /\ \E i \in 1..Len(control_points) :
           /\ ~control_points[i].fixed
           /\ Call("remove", [i |-> i],
                   Returns([Self EXCEPT !.control_points =
                       SubSeq(control_points, 1, i - 1)
                           \o SubSeq(control_points, i + 1, Len(control_points))]))
    /\ UNCHANGED <<grad_file, saved, vtk_table, volume_prop, returned>>

SortControlPoints ==
    /\ Call("sort_control_points", None,
            Returns([Self EXCEPT !.control_points =
                sort_control_points(control_points)]))
    /\ UNCHANGED <<grad_file, saved, vtk_table, volume_prop, returned>>

\* Calls on a legacy table.
Update ==
    /\ Call("update", None, UpdateOld(Self))
    /\ UNCHANGED <<grad_file, saved, vtk_table, volume_prop, returned>>

SetScalingFunction ==
    /\ \E e \in ExprInputs :
           Call("set_scaling_function", [new_function_string |-> e],
                set_scaling_function(Self, e))
    /\ UNCHANGED <<grad_file, saved, vtk_table, volume_prop, returned>>

SetScalingFunctionParameter ==
    /\ \E a \in ParamInputs :
           Call("set_scaling_function_parameter", [new_parameter |-> a],
                set_scaling_function_parameter(Self, a))
    /\ UNCHANGED <<grad_file, saved, vtk_table, volume_prop, returned>>

Save ==
    /\ Call("save", None, save(Self))
    /\ grad_file' = GradFile(Self)
    /\ saved' = Self
    /\ UNCHANGED <<vtk_table, volume_prop, returned>>

Load ==
    /\ \E file \in FileInputs : Call("load", file, load(Self, file))
    /\ UNCHANGED <<grad_file, saved, vtk_table, volume_prop, returned>>

LoadFromVtkVolumeProp ==
    /\ \E vp \in VolumePropInputs :
           Call("load_from_vtk_volume_prop", vp,
                load_from_vtk_volume_prop(Self, vp))
    /\ UNCHANGED <<grad_file, saved, vtk_table, volume_prop, returned>>

NextOld ==
    \/ InsertControlPoint
    \/ SetPos
    \/ SetRgba
    \/ RemoveControlPoint
    \/ SortControlPoints
    \/ Update
    \/ SetScalingFunction
    \/ SetScalingFunctionParameter
    \/ Save
    \/ Load
    \/ LoadFromVtkVolumeProp

SpecOld == InitOld /\ [][NextOld]_vars

\* Calls on a delegating table.
UpdateOfNew ==
    /\ Call("update", None, UpdateNew(Self))
    /\ UNCHANGED <<grad_file, saved, vtk_table, volume_prop, returned>>

SetScalingFunctionOfNew ==
    /\ \E e \in ExprInputs :
           Call("set_scaling_function", [new_function_string |-> e],
                NotImplemented(Self))
    /\ UNCHANGED <<grad_file, saved, vtk_table, volume_prop, returned>>

SetScalingFunctionParameterOfNew ==
    /\ \E a \in ParamInputs :
           Call("set_scaling_function_parameter", [new_parameter |-> a],
                NotImplemented(Self))
    /\ UNCHANGED <<grad_file, saved, vtk_table, volume_prop, returned>>

ScalingParametersChangedOfNew ==
    /\ Call("scaling_parameters_changed", None, NotImplemented(Self))
    /\ UNCHANGED <<grad_file, saved, vtk_table, volume_prop, returned>>

SaveOfNew ==
    /\ Call("save", None, Returns(Self))
    /\ grad_file' = GradFile(Self)
    /\ saved' = Self
    /\ UNCHANGED <<vtk_table, volume_prop, returned>>

LoadOfNew ==
    /\ \E file \in FileInputs : Call("load", file, load_new(Self, file))
    /\ UNCHANGED <<grad_file, saved, vtk_table, volume_prop, returned>>

LoadFromVtkVolumePropOfNew ==
    /\ \E vp \in VolumePropInputs :
           Call("load_from_vtk_volume_prop", vp,
                load_from_vtk_volume_prop_new(Self, vp))
    /\ UNCHANGED <<grad_file, saved, vtk_table, volume_prop, returned>>

NextNew ==
    \/ InsertControlPoint
    \/ SetPos
    \/ SetRgba
    \/ RemoveControlPoint
    \/ SortControlPoints
    \/ UpdateOfNew
    \/ SetScalingFunctionOfNew
    \/ SetScalingFunctionParameterOfNew
    \/ ScalingParametersChangedOfNew
    \/ SaveOfNew
    \/ LoadOfNew
    \/ LoadFromVtkVolumePropOfNew

SpecNew == InitNew /\ [][NextNew]_vars

\* The editing of the control points of a legacy table, with set_pos
\* called on positions below, inside and above [0, 1].
SetPosAnywhere ==
    /\ \E i \in 1..Len(control_points), f \in PosInputs \cup NewPosInputs :
           Call("set_pos", [i |-> i, f |-> f],
                Returns([Self EXCEPT !.control_points[i].pos = set_pos(f)]))
    /\ UNCHANGED <<grad_file, saved, vtk_table, volume_prop, returned>>

NextEdit ==
    \/ InsertControlPoint
    \/ SetPosAnywhere
    \/ SortControlPoints
    \/ Update

SpecEdit == InitOld /\ [][NextEdit]_vars

\* Table sizes handed to store_to_vtk_lookup_table.
NumEntriesInputs == {2, 3}

\* Scalar ranges handed to store_to_vtk_volume_prop.
RangeInputs == {<<0, 10>>, <<-1, 1>>}

\* Expressions handed to set_scaling_function before an export: as above,
\* and one whose values leave [0, 1].
WideExprInputs == ExprInputs \cup {<<"2*x">>}

\* The exports of a legacy table.
SetScalingFunctionWide ==
    /\ \E e \in WideExprInputs :
           Call("set_scaling_function", [new_function_string |-> e],
                set_scaling_function(Self, e))
    /\ UNCHANGED <<grad_file, saved, vtk_table, volume_prop, returned>>

StoreToVtkLookupTable ==
    /\ \E n \in NumEntriesInputs :
           \E r \in {store_to_vtk_lookup_table(Self, n)} :
               /\ Call("store_to_vtk_lookup_table", [num_entries |-> n],
                       Raises(Self, r.err, r.msg))
               /\ vtk_table' = [number_of_table_values |-> n,
                                table_values |-> r.table_values]
    /\ UNCHANGED <<grad_file, saved, volume_prop, returned>>

StoreToVtkVolumeProp ==
    /\ \E sr \in RangeInputs :
           /\ Call("store_to_vtk_volume_prop", [scalar_range |-> sr],
                   Returns(Self))
           /\ volume_prop' = store_to_vtk_volume_prop(Self, sr)
    /\ UNCHANGED <<grad_file, saved, vtk_table, returned>>

NextExport ==
    \/ InsertControlPoint
    \/ Update
    \/ SetScalingFunctionWide
    \/ SetScalingFunctionParameter
    \/ StoreToVtkLookupTable
    \/ StoreToVtkVolumeProp

SpecExport == InitOld /\ [][NextExport]_vars

\* Colours handed to Color.set_rgba: the six hue sectors, two colours on
\* sector borders, a grey, and a colour of saturation 0.00005.
ColourInputs ==
    {<<One, Rat(2, 5), Zero, One>>,
     <<Rat(1, 2), One, Zero, One>>,
     <<Zero, One, Rat(1, 4), Rat(1, 2)>>,
     <<Zero, Rat(1, 4), One, One>>,
     <<Rat(1, 4), Zero, One, One>>,
     <<One, Zero, Rat(1, 4), Rat(1, 2)>>,
     <<One, One, Zero, One>>,
     <<One, Zero, One, One>>,
     <<Rat(1, 2), Rat(1, 2), Rat(1, 2), One>>,
     <<One, Rat(99995, 100000), Rat(99995, 100000), One>>}

\* The colouring of the control points.
SetRgbaAny ==
    /\ \E i \in 1..Len(control_points), c \in ColourInputs :
           Call("set_rgba", [i |-> i, c |-> c],
                Returns([Self EXCEPT !.control_points[i] =
                    set_rgba(@, c[1], c[2], c[3], c[4])]))
    /\ UNCHANGED <<grad_file, saved, vtk_table, volume_prop, returned>>

NextColour ==
    \/ SetRgbaAny
    \/ Update

SpecColour == InitOld /\ [][NextColour]_vars

\* Calls of an editor that reads single colours back from a legacy table.
QueryInputs == {Zero, Rat(2, 5), Rat(5, 8), One}

GetPosColor ==
    /\ \E f \in QueryInputs :
           /\ Call("get_pos_color", [f |-> f], Returns(Self))
           /\ returned' = [hsva |-> get_pos_color(table_hsva, f)]
    /\ UNCHANGED <<grad_file, saved, vtk_table, volume_prop>>

NextQuery ==
    \/ InsertControlPoint
    \/ SetPos
    \/ SetRgba
    \/ Update
    \/ GetPosColor

SpecQuery == InitOld /\ [][NextQuery]_vars
\* The editing of a delegating table with points of every kind of mask:
\* the masks ColorControlPoint() is constructed with, and a file whose
\* middle point has the mask "rgb".
MaskInputs == {<<>>, <<"a">>, <<"h">>, <<"h", "s", "v", "a">>}

MaskPoints ==
    {[ColorControlPoint(ch, FALSE) EXCEPT !.pos = set_pos(f)] :
        ch \in MaskInputs, f \in PosInputs}

MaskFile ==
    [GoodFile EXCEPT !.lines[2] =
        FileLine(7, Rat(1, 8), "False", <<"r", "g", "b">>,
                 <<Zero, One, One, One>>)]

InsertControlPointOfMask ==
    /\ Len(control_points) < MaxPoints
    /\ \E new_point \in MaskPoints :
           Call("insert_control_point", new_point,
                Returns([Self EXCEPT !.control_points =
                    insert_control_point(control_points, new_point)]))
    /\ UNCHANGED <<grad_file, saved, vtk_table, volume_prop, returned>>

LoadOfNewMasks ==
    /\ \E file \in {GoodFile, MaskFile} :
           Call("load", file, load_new(Self, file))
    /\ UNCHANGED <<grad_file, saved, vtk_table, volume_prop, returned>>

NextMask ==
    \/ InsertControlPointOfMask
    \/ SetPos
    \/ RemoveControlPoint
    \/ UpdateOfNew
    \/ LoadOfNewMasks

SpecMask == InitNew /\ [][NextMask]_vars

\* A table of either class.  Only the legacy table has an hsva table.
Legacy == table_hsva # <<>>

InitEither == InitOld \/ InitNew

NextEither ==
    \/ Legacy /\ NextOld
    \/ ~Legacy /\ NextNew

SpecEither == InitEither /\ [][NextEither]_vars

(***************************************************************************)
(* Properties.                                                             *)
(***************************************************************************)
Sorted(cps) == \A i \in 1..(Len(cps) - 1) : RLe(cps[i].pos, cps[i + 1].pos)

HasAllChannels(pt) ==
    \A i \in 1..4 : Has(Channels[i], pt.active_channels)

\* The tables t_hsva, t_rgba are what update() computes from cps.
FreshOf(cps, t_hsva, t_rgba) ==
    LET u == update(cps, ZeroTable, ZeroTable)
    IN  u.err = "" /\ u.table_hsva = t_hsva /\ u.table = t_rgba

RAbs(a) == <<Abs(a[1]), a[2]>>

\* Half a unit of the last digit printed for a number of [0.1, 1].
Tolerance == Rat(1, 2 * Pow10(PrintDigits))

Close(x, y) == RLe(RAbs(RSub(x, y)), Tolerance)

CloseColour(c, d) == \A i \in 1..4 : Close(c[i], d[i])

ConsistencyErrors == {"AssertionError", "ZeroDivisionError", "IndexError"}

\* C1.  On a legacy table whose control points are sorted and whose last
\* call was an update() that returned, the colour at position 0.0 is the
\* colour of the fixed point at 0.0 and the colour at position 1.0 is the
\* colour of the fixed point at 1.0, on the four channels.
C1_BoundaryColours ==
    (op = "update" /\ err = "" /\ Sorted(control_points)) =>
        \A i \in 1..Len(control_points) :
            LET pt == control_points[i]
            IN  /\ (pt.fixed /\ pt.pos = Zero) =>
                       get_pos_color(table_hsva, Zero) = pt.hsva
                /\ (pt.fixed /\ pt.pos = One) =>
                       get_pos_color(table_hsva, One) = pt.hsva

\* C2, as stated.  When insert_control_point, set_pos, load or
\* load_from_vtk_volume_prop has returned, the tables are the ones update()
\* computes from the control points.
C2_TableFreshAfterMutation ==
    (op \in {"insert_control_point", "set_pos", "load",
             "load_from_vtk_volume_prop"} /\ err = "") =>
        FreshOf(control_points, table_hsva, table)

\* C2, amended.  When load or load_from_vtk_volume_prop returns, the tables
\* are the ones update() computes from the control points;
\* insert_control_point and set_pos leave both tables as they were.
C2_LoadsUpdateEditsDoNot ==
    [][/\ (op' \in {"load", "load_from_vtk_volume_prop"} /\ err' = "") =>
              FreshOf(control_points', table_hsva', table')
       /\ (op' \in {"insert_control_point", "set_pos"} /\ nops' # nops) =>
              (table_hsva' = table_hsva /\ table' = table)]_vars

C2_Witness ==
    op = "load" /\ err = "" /\ nops = 1 /\ control_points # InitialControlPoints

\* C3.  The control-point list has at least two points, one of them at 0.0
\* and one of them at 1.0 with h, s, v and a among its active channels.
C3_BoundaryInvariant ==
    /\ Len(control_points) >= 2
    /\ \E i \in 1..Len(control_points) :
           control_points[i].pos = Zero /\ HasAllChannels(control_points[i])
    /\ \E i \in 1..Len(control_points) :
           control_points[i].pos = One /\ HasAllChannels(control_points[i])

\* C4.  A call of update, load or load_from_vtk_volume_prop that ends with
\* a consistency error leaves the control points and both tables as they
\* were before the call.
C4_FailedCallChangesNothing ==
    [][(op' \in {"update", "load", "load_from_vtk_volume_prop"}
            /\ nops' # nops /\ err' \in ConsistencyErrors) =>
           (/\ control_points' = control_points
            /\ table_hsva' = table_hsva
            /\ table' = table)]_vars

ShortLines(file) == {i \in 1..Len(file.lines) : file.lines[i].nargs < 7}

\* C5.  load() of a file with a control-point line of fewer than seven
\* words raises a ValueError that carries the line, and leaves the control
\* points, the tables and the three scaling attributes as they were.
C5_MalformedLineChangesNothing ==
    [][(op' = "load" /\ nops' # nops /\ ShortLines(arg') # {}) =>
           (/\ err' = "ValueError"
            /\ \E i \in ShortLines(arg') : msg'[2] = arg'.lines[i]
            /\ control_points' = control_points
            /\ table_hsva' = table_hsva
            /\ table' = table
            /\ scaling_function_string' = scaling_function_string
            /\ scaling_function_parameter' = scaling_function_parameter
            /\ scaling_function' = scaling_function)]_vars

\* The point q read back is the point p written, up to the digits printed.
ReadBack(p, q) ==
    /\ q.fixed = p.fixed
    /\ q.active_channels = p.active_channels
    /\ Close(q.pos, p.pos)
    /\ CloseColour(q.hsva, p.hsva)

\* The control points are those of the last save(), in the same order.
PointsReadBack ==
    /\ Len(control_points) = Len(saved.control_points)
    /\ \A i \in 1..Len(control_points) :
           ReadBack(saved.control_points[i], control_points[i])

\* The hsva table is the one of the last save(), up to the digits printed.
TableReadBack ==
    \A c \in 1..4 : \A k \in 1..TableSize :
        Close(table_hsva[c][k], saved.table_hsva[c][k])

\* The digits printed for x are all the digits of x.
PrintsExactly(x) == FormatFloat(x) = x

C7_FixedPointsStay ==
    [][(op' \in {"set_pos", "insert_control_point", "sort_control_points",
                 "update"} /\ nops' # nops) =>
           \A i \in 1..Len(control_points) :
               control_points[i].fixed =>
                   \E j \in 1..Len(control_points') :
                       /\ control_points'[j].fixed
                       /\ control_points'[j].pos = control_points[i].pos]_vars

\* C8.  On a delegating table the scaling function string is empty and the
\* scaling function is None in every state, and every call that sets a
\* scaling function or its parameter, load() of a file with a scaling
\* expression included, ends with NotImplementedError.
C8_NoScalingOnDelegatingTable ==
    /\ scaling_function_string = <<>>
    /\ scaling_function = None
    /\ op \in {"set_scaling_function", "set_scaling_function_parameter",
               "scaling_parameters_changed"} => err = "NotImplementedError"
    /\ (op = "load" /\ RLe(Rat(11, 10), arg.version)
            /\ Len(arg.function_line_split) > 1) => err = "NotImplementedError"

\* C9.  set_scaling_function with an expression that does not compile ends
\* with ValueError and leaves the scaling function string and the compiled
\* scaling function as they were.
C9_FailedCompileKeepsFunction ==
    [][(op' = "set_scaling_function" /\ nops' # nops
            /\ arg'.new_function_string \in SyntaxErrors) =>
           (/\ err' = "ValueError"
            /\ scaling_function_string' = scaling_function_string
            /\ scaling_function' = scaling_function)]_vars

\* Position of scalar x of the range s1..s2.
Affine(x, s1, s2) == Rat(x - s1, s2 - s1)

Interior(fn) == {j \in 1..Len(fn.nodes) : 1 < j /\ j < Len(fn.nodes)}

Movable(S) == {i \in S : ~control_points[i].fixed}

ColourIndices ==
    {i \in 1..Len(control_points) :
        /\ ~Has("a", control_points[i].active_channels)
        /\ \A c \in {"h", "s", "v"} : Has(c, control_points[i].active_channels)}

AlphaIndices ==
    {i \in 1..Len(control_points) : control_points[i].active_channels = <<"a">>}

FixedIndices == {i \in 1..Len(control_points) : control_points[i].fixed}

PositionsOf(S) == {control_points[i].pos : i \in S}

\* The list has a fixed point with all channels at 0.0, one at 1.0 and no
\* other fixed point, and n + (m - 2) points in all.
ImportedFrame(n, m) ==
    /\ Len(control_points) = n + (m - 2)
    /\ Cardinality(FixedIndices) = 2
    /\ PositionsOf(FixedIndices) = {Zero, One}
    /\ \A i \in FixedIndices : HasAllChannels(control_points[i])
    /\ Cardinality(Movable(ColourIndices)) = n - 2
    /\ Cardinality(Movable(AlphaIndices)) = m - 2

\* C10.  load_from_vtk_volume_prop with n >= 2 colour keyframes and
\* m >= 2 opacity keyframes over the same range s1..s2 leaves n + (m - 2)
\* points: the two fixed ones with all channels at 0.0 and 1.0, a movable
\* point without alpha for every other colour keyframe and a movable
\* alpha-only point at (x - s1)/(s2 - s1) for every interior opacity
\* keyframe x; the list is sorted and the tables are the ones update()
\* computes from it.
C10_ImportKeyframes ==
    (op = "load_from_vtk_volume_prop"
         /\ Len(arg.ctf.nodes) >= 2 /\ Len(arg.otf.nodes) >= 2
         /\ CtfRange(arg.otf) = CtfRange(arg.ctf)) =>
        LET s1 == CtfRange(arg.ctf)[1]
            s2 == CtfRange(arg.ctf)[2]
        IN  /\ ImportedFrame(Len(arg.ctf.nodes), Len(arg.otf.nodes))
            /\ PositionsOf(Movable(AlphaIndices)) =
                   {Affine(arg.otf.nodes[j], s1, s2) : j \in Interior(arg.otf)}
            /\ Sorted(control_points)
            /\ FreshOf(control_points, table_hsva, table)

\* C11.  update() is idempotent: when an update() that returned is followed
\* at once by a second update(), the second one returns too and leaves the
\* hsva and rgba tables of a legacy table, and the colour and opacity
\* keyframes of a delegating table, as the first one left them.
C11_UpdateIdempotent ==
    [][(op = "update" /\ err = "" /\ op' = "update" /\ nops' = nops + 1) =>
           (err' = "" /\ table_hsva' = table_hsva /\ table' = table
                /\ alpha' = alpha)]_vars

\* A second update() has returned on control points that were edited.
C11_Witness ==
    /\ op = "update" /\ err = "" /\ nops = MaxOps
    /\ control_points # InitialControlPoints

\* The list cps without its element i.
RemoveAt(cps, i) == SubSeq(cps, 1, i - 1) \o SubSeq(cps, i + 1, Len(cps))

\* The place of the appended point p in the sorted list cps: the sort is
\* stable, so p is the last of the points equal to it.
PlaceOf(cps, p) ==
    CHOOSE i \in 1..Len(cps) :
        cps[i] = p /\ \A j \in (i + 1)..Len(cps) : cps[j] # p

\* The object after insert_control_point(p), update(), the removal of p
\* and a second update(); the first update() may raise.
InsertUpdateRemoveUpdate(self, p) ==
    Only({UpdateOld([s1 EXCEPT !.control_points =
                        RemoveAt(s1.control_points,
                                 PlaceOf(s1.control_points, p))]) :
          s1 \in {UpdateOld([self EXCEPT !.control_points =
                               insert_control_point(self.control_points, p)]).self}})

\* The tables of self are the ones current when the call that made r began.
SameTables(r) ==
    r.err = "" /\ r.self.table_hsva = table_hsva /\ r.self.table = table

\* C12, as stated.  When update() has returned, the tables hold what
\* update() computes from the control points whatever the tables held
\* before; and inserting a point that is not fixed, update(), removing the
\* point and update() again give the tables current before the insertion.
C12_InsertRemoveRestoresTable ==
    (op = "update" /\ err = "") =>
        /\ FreshOf(control_points, table_hsva, table)
        /\ \A p \in NewPoints : SameTables(InsertUpdateRemoveUpdate(Self, p))

\* C12, amended.  When update() has returned, the tables hold what update()
\* computes from the control points whatever the tables held before; and
\* when the control points are sorted, inserting a point that is not fixed,
\* update(), removing the point and update() again give the tables current
\* before the insertion.
C12_InsertRemoveRestoresSortedTable ==
    (op = "update" /\ err = "") =>
        /\ FreshOf(control_points, table_hsva, table)
        /\ Sorted(control_points) =>
               \A p \in NewPoints : SameTables(InsertUpdateRemoveUpdate(Self, p))

\* update() has returned on sorted, edited control points, and some
\* insertion followed by update() changes the table.
C12_Witness ==
    /\ op = "update" /\ err = "" /\ nops >= 2
    /\ Sorted(control_points)
    /\ control_points # InitialControlPoints
    /\ \E p \in NewPoints :
           \E r \in {UpdateOld([Self EXCEPT !.control_points =
                                   insert_control_point(control_points, p)])} :
               r.err = "" /\ r.self.table_hsva # table_hsva

\* The points of cps at position v, in their order in cps.
PointsAt(cps, v) == SelectSeq(cps, LAMBDA x : x.pos = v)

\* new is old sorted by pos, the points of equal pos in their order in old.
StableSortOf(new, old) ==
    /\ Sorted(new)
    /\ Len(new) = Len(old)
    /\ \A i \in 1..Len(old) : PointsAt(new, old[i].pos) = PointsAt(old, old[i].pos)

\* C13.  insert_control_point(p) leaves the list equal to the stable sort
\* by pos of the previous list with p appended: non-decreasing by pos, one
\* point longer also when a point of the same pos exists, the points of
\* equal pos in their previous order with p after them.
C13_InsertIsStableSort ==
    [][(op' = "insert_control_point" /\ nops' # nops) =>
           /\ Len(control_points') = Len(control_points) + 1
           /\ StableSortOf(control_points', Append(control_points, arg'))]_vars

\* A point was inserted at the position of a point already in the list.
C13_Witness ==
    /\ op = "insert_control_point" /\ err = ""
    /\ \E i \in 2..Len(control_points) :
           /\ control_points[i] = arg
           /\ control_points[i - 1].pos = arg.pos

\* f clamped into [0, 1].
Clamped(f) == IF RLt(f, Zero) THEN Zero ELSE IF RLt(One, f) THEN One ELSE f

ColourAt(t_rgba, q) ==
    LET at == RMul(q, RInt(TableSize - 1))
        lo == at[1] \div at[2]
        hi == IF lo = TableSize - 1 THEN lo ELSE lo + 1
    IN  [c \in 1..4 |->
            RAdd(t_rgba[c][lo + 1],
                 RMul(RSub(at, RInt(lo)),
                      RSub(t_rgba[c][hi + 1], t_rgba[c][lo + 1])))]

\* The add_hsv_point and add_point calls that place every control point of
\* cps at s1 + pos * (s2 - s1).
KeyframesOf(cps, s1, s2) ==
    LET X(pt) == RAdd(RInt(s1), RMul(pt.pos, RInt(s2 - s1)))
        colour == SelectSeq(cps, LAMBDA pt : pt.active_channels # <<"a">>)
        opacity == SelectSeq(cps, LAMBDA pt : Has("a", pt.active_channels))
    IN  [ctf |-> [i \in 1..Len(colour) |->
                     <<X(colour[i]), colour[i].hsva[1], colour[i].hsva[2],
                       colour[i].hsva[3]>>],
         otf |-> [i \in 1..Len(opacity) |->
                     <<X(opacity[i]), opacity[i].hsva[4]>>]]

\* C15.  With a compiled scaling function g whose calls return,
\* store_to_vtk_lookup_table(t, n) writes as entry i the interpolated
\* colour of the table at g(i/(n-1)) clamped into [0, 1];
\* store_to_vtk_volume_prop places the keyframe of every control point at
\* s1 + pos*(s2 - s1), whatever scaling function is set.
C15_ScalingInLookupTableOnly ==
    [][/\ (op' = "store_to_vtk_lookup_table" /\ err' = ""
              /\ scaling_function # None) =>
              /\ Len(vtk_table'.table_values) = arg'.num_entries
              /\ \A i \in 0..(arg'.num_entries - 1) :
                     vtk_table'.table_values[i + 1] =
                         ColourAt(table,
                             Clamped(ParamFn(scaling_function,
                                         Rat(i, arg'.num_entries - 1)).value))
       /\ (op' = "store_to_vtk_volume_prop" /\ nops' # nops) =>
              volume_prop' = KeyframesOf(control_points, arg'.scalar_range[1],
                                         arg'.scalar_range[2])]_vars

\* A lookup table was written through a scaling function that moves a
\* position and sends another outside [0, 1], after a volume property
\* was written with the same scaling function set.
C15_Witness ==
    /\ op = "store_to_vtk_lookup_table" /\ err = ""
    /\ scaling_function # None
    /\ volume_prop # None
    /\ \E i, j \in 0..(arg.num_entries - 1) :
           LET x == Rat(i, arg.num_entries - 1)
               gi == ParamFn(scaling_function, x).value
               gj == ParamFn(scaling_function, Rat(j, arg.num_entries - 1)).value
           IN  /\ ColourAt(table, Clamped(gi)) # ColourAt(table, x)
               /\ Clamped(gj) # gj

\* Largest and smallest of the r, g, b of a colour.
MaxRgb(c) == RMax(c[1], RMax(c[2], c[3]))
MinRgb(c) == RMin(c[1], RMin(c[2], c[3]))

\* Bound on the rounding error of a few operations on doubles of [0, 1].
FloatTolerance == Rat(1, Pow10(9))

\* The colours c and d differ by at most tol on every component.
Within(c, d, tol) == \A i \in 1..4 : RLe(RAbs(RSub(c[i], d[i])), tol)

ActiveOn(cps, ci) ==
    SelectSeq(cps, LAMBDA pt : Has(Channels[ci], pt.active_channels))

\* The span of the consecutive points start, end holds table index k.
SpanHolds(start, end, k) ==
    /\ RLt(start.pos, end.pos)
    /\ RLe(start.pos, get_index_pos(k))
    /\ RLe(get_index_pos(k), end.pos)

\* Entry k of channel ci is interpolated between the consecutive active
\* points whose span holds k, when there is such a pair.
InterpolatedEntry(t_hsva, cps, ci, k) ==
    LET A == ActiveOn(cps, ci)
        Pairs == {j \in 1..(Len(A) - 1) : SpanHolds(A[j], A[j + 1], k)}
    IN  Pairs # {} =>
            \E j \in Pairs :
                t_hsva[ci][k + 1] =
                    lerp(A[j].hsva[ci], A[j + 1].hsva[ci],
                         RDiv(RSub(get_index_pos(k), A[j].pos),
                              RSub(A[j + 1].pos, A[j].pos)))

\* The premise of C17 on channel number ci.
TwoActiveLastAtOne(cps, ci) ==
    LET A == ActiveOn(cps, ci)
    IN  Len(A) >= 2 /\ A[Len(A)].pos = One

\* C17.  After update() on sorted control points with at least two points
\* active on a channel, the last of them at position 1.0, every entry k of
\* the channel is lerp(start.c, end.c, f), f = (k/(N-1) - start.pos) /
\* (end.pos - start.pos), for the consecutive active points start, end
\* whose span holds k; the black-to-white file gives the grey ramp.
C17_EntriesInterpolated ==
    /\ (op = "update" /\ err = "" /\ Sorted(control_points)) =>
           \A ci \in 1..4 :
               TwoActiveLastAtOne(control_points, ci) =>
                   \A k \in 0..(TableSize - 1) :
                       InterpolatedEntry(table_hsva, control_points, ci, k)
    /\ (op = "load" /\ arg = OldFile /\ err = "") =>
           \A k \in 0..(TableSize - 1) :
               get_color(table, k) =
                   <<get_index_pos(k), get_index_pos(k), get_index_pos(k), One>>

\* C18.  On sorted control points that satisfy the boundary invariant,
\* also when several points share a position or a table index, update()
\* runs to completion: no assertion fails and no exception is raised.
C18_UpdateCompletesOnSortedPoints ==
    (op = "update" /\ Sorted(control_points) /\ C3_BoundaryInvariant) =>
        err = ""

\* The locals of the walk of update() over the pairs cpi when it
\* interpolates table index target, walking from index k with locals w.
RECURSIVE WalkTo(_, _, _, _)
WalkTo(cpi, w, k, target) ==
    Only({IF k = target \/ w2.err # "" THEN w2
          ELSE WalkTo(cpi, w2, k + 1, target) :
          w2 \in {NextInterval(cpi, w, k)}})

\* The locals of update() on channel number ci at table index k.
PairAt(cps, ci, k) ==
    Only({WalkTo(cpi,
                 [end_point_id |-> 0,
                  start_point |-> cpi[1].point,
                  start_pos |-> Zero,
                  end_point |-> cpi[1].point,
                  end_pos |-> Zero,
                  next_interval_begin_idx |-> 0,
                  err |-> ""], 0, k) :
          cpi \in {control_point_indices(cps, Channels[ci])}})

\* update() reaches index k of channel number ci with a bracketing pair of
\* two control points of the same position.
SamePositionPairAt(cps, ci, k) ==
    /\ Len(control_point_indices(cps, Channels[ci])) >= 2
    /\ \E w \in {PairAt(cps, ci, k)} :
           w.err = "" /\ w.start_point.pos = w.end_point.pos

\* C19.  update() never writes a table value computed from a bracketing
\* pair of control points of the same position: when the pair it reaches
\* some table index with has start.pos = end.pos, update() raises.
C19_NoValueFromSamePositionPair ==
    [][(op' = "update" /\ nops' # nops
            /\ \E ci \in 1..4, k \in 0..(TableSize - 1) :
                   SamePositionPairAt(control_points, ci, k)) =>
           err' # ""]_vars

\* The table index nearest to position f of [0, 1], the upper one of two
\* that are equally near.
NearestIndex(f) ==
    CHOOSE i \in 0..TableSize :
        \E x \in {RMul(f, RInt(TableSize - 1))} :
            RLe(Rat(2 * i - 1, 2), x) /\ RLt(x, Rat(2 * i + 1, 2))

\* The last table index that is not beyond position f of [0, 1].
TruncatedIndex(f) ==
    CHOOSE i \in 0..TableSize :
        \E x \in {RMul(f, RInt(TableSize - 1))} :
            RLe(RInt(i), x) /\ RLt(x, RInt(i + 1))

\* Entry k of channel number ci is interpolated between the first two
\* consecutive active points of which the second has an index of at least
\* k, the index of a point at position p being Idx(p).
EntryByIndex(Idx(_), t_hsva, cps, ci, k) ==
    LET A == ActiveOn(cps, ci)
        J == {j \in 1..(Len(A) - 1) : Idx(A[j + 1].pos) >= k}
    IN  /\ J # {}
        /\ \E j \in J :
               /\ \A i \in J : j <= i
               /\ A[j].pos # A[j + 1].pos
               /\ t_hsva[ci][k + 1] =
                      lerp(A[j].hsva[ci], A[j + 1].hsva[ci],
                           RDiv(RSub(get_index_pos(k), A[j].pos),
                                RSub(A[j + 1].pos, A[j].pos)))

\* The mapping Idx is the one update() and get_pos_color() use: update()
\* gives a control point at p the index Idx(p), which shows in the table
\* of a sorted list that satisfies the boundary invariant, and the query
\* for f returns row Idx(f).
IndexMapping(Idx(_)) ==
    /\ op = "update" =>
           \A i \in 1..Len(control_points) :
               control_point_indices_total(control_points)[i].idx =
                   Idx(control_points[i].pos)
    /\ (op = "update" /\ err = "" /\ Sorted(control_points)
            /\ C3_BoundaryInvariant) =>
           \A ci \in 1..4, k \in 0..(TableSize - 1) :
               EntryByIndex(Idx, table_hsva, control_points, ci, k)
    /\ op = "get_pos_color" =>
           returned.hsva = get_color_hsva(table_hsva, Idx(arg.f))

\* C20.  The position-to-index mapping of the legacy table of size N is
\* round-to-nearest: update() gives a control point at position p the table
\* index round(p*(N-1)), and the exact-index query for f in [0, 1] reads
\* table row round(f*(N-1)).
C20_IndexIsNearest == IndexMapping(NearestIndex)

\* C20, amended.  The position-to-index mapping truncates: update() gives a
\* control point at position p the table index int(p*(N-1)), and the
\* exact-index query for f in [0, 1] reads table row int(f*(N-1)).
C20_IndexIsTruncated == IndexMapping(TruncatedIndex)

\* A query that reads, from a table update() made of edited control points,
\* another row than the nearest one.
C20_Witness ==
    /\ op = "get_pos_color" /\ err = "" /\ nops = MaxOps
    /\ control_points # InitialControlPoints
    /\ FreshOf(control_points, table_hsva, table)
    /\ TruncatedIndex(arg.f) # NearestIndex(arg.f)
    /\ returned.hsva # get_color_hsva(table_hsva, NearestIndex(arg.f))
    /\ \E i \in 1..Len(control_points) :
           TruncatedIndex(control_points[i].pos)
               # NearestIndex(control_points[i].pos)

\* The control point at place i of cps is not active on channel number ci.
InactiveOn(cps, i, ci) == ~Has(Channels[ci], cps[i].active_channels)

\* Row ci of the hsva table update() makes of the control points cps.
RowOf(cps, ci) == UpdateChannel(cps, ci, ZeroTable[ci])

\* The point the first call on a new table added, moved or recoloured, or
\* the constructor's point it removed.
EditedPoint ==
    CASE op = "insert_control_point" -> arg
      [] op \in {"set_pos", "set_rgba"} -> control_points[arg.i]
      [] op = "remove" -> InitialControlPoints[arg.i]

\* C21.  Channels are interpolated independently.  After update() every
\* row of the hsva table is the row update() makes without any one of the
\* points that are not active on the row's channel; and update() after a
\* point that is not active on a channel was added, removed, moved or
\* recoloured leaves the row of the channel as it was.
C21_InactivePointsAreAbsent ==
    [][(op' = "update" /\ nops' # nops) =>
           /\ err' = "" =>
                  \A ci \in 1..4, i \in 1..Len(control_points) :
                      InactiveOn(control_points, i, ci) =>
                          \E r \in {RowOf(RemoveAt(control_points, i), ci)} :
                              r.err = "" /\ r.row = table_hsva'[ci]
           /\ (nops = 1 /\ op \in {"insert_control_point", "set_pos",
                                   "set_rgba", "remove"}) =>
                  \A ci \in 1..4 :
                      ~Has(Channels[ci], EditedPoint.active_channels) =>
                          table_hsva'[ci] = table_hsva[ci]]_vars

\* update() has interpolated the rows of a list that holds a point of the
\* alpha channel only, between the boundaries, of another alpha than theirs.
C21_Witness ==
    /\ op = "update" /\ err = "" /\ nops = 2
    /\ \E i \in 1..Len(control_points) :
           /\ control_points[i].active_channels = <<"a">>
           /\ RLt(Zero, control_points[i].pos)
           /\ control_points[i].hsva[4] # One
           /\ control_points[i].hsva[1] # Rat(1, 6)
    /\ \E k \in 1..TableSize : table_hsva[4][k] # One

\* The keyframes of the points of cps that Keeps(point) holds of, in list
\* order: Frame(point) each.
FramesOf(cps, Keeps(_), Frame(_)) ==
    LET S == SelectSeq(cps, Keeps)
    IN  [i \in 1..Len(S) |-> Frame(S[i])]

HsvFrame(pt) == <<pt.pos, pt.hsva[1], pt.hsva[2], pt.hsva[3]>>

AlphaFrame(pt) == <<pt.pos, pt.hsva[4]>>

HasHsv(pt) == \E c \in {"h", "s", "v"} : Has(c, pt.active_channels)

HasAlpha(pt) == Has("a", pt.active_channels)

\* A call of the delegating table that ran update() to its end.
UpdatedNew == ~Legacy /\ err = "" /\ op \in {"update", "load"}

\* C22.  After update() on a delegating table the colour function holds
\* an HSV keyframe for exactly the control points whose mask has one of h,
\* s, v, and the opacity function a keyframe for exactly the points whose
\* mask has a; nothing of earlier updates is left, and the keyframes are in
\* list order at each point's pos.
C22_KeyframesByMask ==
    UpdatedNew =>
        /\ table = FramesOf(control_points, HasHsv, HsvFrame)
        /\ alpha = FramesOf(control_points, HasAlpha, AlphaFrame)

\* C23.  Color.set_rgba(r, g, b, a) with r = g = b does not overwrite the
\* stored hue: the Color holds the hue after the call that it held before.
C23_AchromaticKeepsHue ==
    [][(op' = "set_rgba" /\ nops' # nops
            /\ arg'.c[1] = arg'.c[2] /\ arg'.c[2] = arg'.c[3]) =>
           control_points'[arg'.i].hsva[1] = control_points[arg'.i].hsva[1]]_vars

\* The calls that compile or evaluate the scaling function.
ScalingCalls ==
    {"set_scaling_function", "set_scaling_function_parameter",
     "store_to_vtk_lookup_table"}

\* The exception the table raises for a scaling function that failed.
IsCompileError ==
    /\ err = "ValueError"
    /\ Len(msg) = 2
    /\ msg[1] = "failed to compile function: "

\* C24.  Every failure of a scaling function, when it is set or when it is
\* evaluated, reaches the caller of set_scaling_function,
\* set_scaling_function_parameter or store_to_vtk_lookup_table as the
\* table's error for a scaling function that failed, never as the raw
\* exception of the evaluation.
C24_ScalingFailuresAreReported ==
    (op \in ScalingCalls /\ err # "") => IsCompileError

\* C25.  On a legacy table, save() followed by load() of the written file
\* restores the scaling expression and the parameter of the table that was
\* saved, for every expression set_scaling_function accepted, and compiles
\* the same scaling function again.
C25_ScalingRoundTrip ==
    [][(op' = "load" /\ nops' # nops /\ grad_file # NoFile
            /\ arg' = grad_file
            /\ (saved.scaling_function_string = <<>>
                    \/ saved.scaling_function # None)) =>
           /\ scaling_function_string' = saved.scaling_function_string
           /\ scaling_function_parameter' = saved.scaling_function_parameter
           /\ scaling_function' = saved.scaling_function]_vars

\* The control points the lines of a .grad file describe, in file order.
PointsOfFile(file) ==
    [i \in 1..Len(file.lines) |->
        [pos |-> Clamped(file.lines[i].pos),
         fixed |-> (file.lines[i].fixed = "True"),
         active_channels |-> file.lines[i].active_channels,
         hsva |-> file.lines[i].hsva]]

\* Every control-point line of the file has its seven words.
WellFormed(file) == \A i \in 1..Len(file.lines) : file.lines[i].nargs >= 7

\* The file is of a version that has the two scaling lines.
HasScalingLines(file) == RLe(Rat(11, 10), file.version)

\* C26.  load() branches on the version of the file.  Below 1.1 it leaves
\* the table with the empty scaling expression, the parameter 0.5 and no
\* compiled scaling function, whatever was set before; from 1.1 on it takes
\* the expression and the parameter from the two lines after the version
\* tag.  In both cases the control points are those of the file's lines and
\* no others, and update() is run.
C26_LoadBranchesOnVersion ==
    [][(op' = "load" /\ nops' # nops /\ WellFormed(arg')) =>
           /\ ~HasScalingLines(arg') =>
                  /\ scaling_function_string' = <<>>
                  /\ scaling_function_parameter' = Rat(1, 2)
                  /\ scaling_function' = None
           /\ HasScalingLines(arg') =>
                  /\ scaling_function_string' = Tail(arg'.function_line_split)
                  /\ scaling_function_parameter' = arg'.parameter
           /\ StableSortOf(control_points', PointsOfFile(arg'))
           /\ err' # "ValueError" =>
                  \E u \in {update(control_points', table_hsva, table)} :
                      /\ table_hsva' = u.table_hsva
                      /\ table' = u.table
                      /\ err' = u.err]_vars

====
